---- MODULE Spec2Model ----
(***************************************************************************)
(* Model of python-agent/agent.py: MCPToolboxAgent (connect, disconnect,   *)
(* _format_tools_for_bedrock, _execute_tool, chat, clear_history) and the  *)
(* interactive loop of main().                                             *)
(*                                                                         *)
(* Python values are represented as follows.                               *)
(*   dict        a record; a missing key is a field outside DOMAIN, the    *)
(*               empty dict is the function with empty domain              *)
(*   list        a sequence                                                *)
(*   str         a string, + is \o                                         *)
(*   x or None   <<>> for None, <<x>> for a value (nullable attributes)    *)
(* The steps of the model are the stretches of code between two points     *)
(* where the environment answers: input(), bedrock.converse, and each      *)
(* await on the MCP session.                                               *)
(***************************************************************************)
EXTENDS Integers, Sequences, FiniteSets, TLC

\* Longest history for which the environment still starts a chat call or
\* answers with another tool round.
MaxTurns == 6

(***************************************************************************)
(* Python helpers                                                          *)
(***************************************************************************)
EmptyDict == [k \in {} |-> TRUE]

\* d.get(key, default)
Get(d, key, default) == IF key \in DOMAIN d THEN d[key] ELSE default

\* truth value of a dict / list
Truthy(d) == DOMAIN d # {}

\* truth value of a nullable string attribute: None and "" are false
TruthyOpt(o) == o # <<>> /\ o[1] # ""

\* .strip() on the lines the terminal can deliver
Strip(line) ==
  CASE line = "   "      -> ""
    [] line = " clear "  -> "clear"
    [] OTHER             -> line

\* Lower that leaves the line as it is
LowerOff(line) == line

\* .lower() on the stripped lines
Lower(line) ==
  CASE line = "Quit"     -> "quit"
    [] line = "QUIT"     -> "quit"
    [] line = "Clear"    -> "clear"
    [] OTHER             -> line

(***************************************************************************)
(* The environment: terminal, tool server, model service                   *)
(***************************************************************************)
\* lines input() can return
Lines == {"", "   ", "quit", "Quit", "clear", " clear ",
          "How many rows in table X?"}

\* causes of exceptions raised by the MCP session or by boto3
Causes == {"timeout"}

QueryInput == [query |-> "SELECT COUNT(*) FROM X"]
SchemaSql  == [type |-> "object", required |-> <<"query">>]
SchemaNone == [type |-> "object", required |-> <<>>]

ToolQuerySql   == [name |-> "query_sql",   description |-> <<"Run SQL">>,
                   inputSchema |-> SchemaSql]
ToolListTables == [name |-> "list_tables", description |-> <<>>,
                   inputSchema |-> SchemaNone]
ToolPing       == [name |-> "ping",        description |-> <<"">>,
                   inputSchema |-> SchemaNone]

\* tool lists list_tools can answer with
ToolLists == { <<>>, <<ToolListTables, ToolPing, ToolQuerySql>> }

\* content blocks of an assistant message
Text(s) == [text |-> s]
ToolUse(id, name, input) ==
  [toolUse |-> [toolUseId |-> id, name |-> name, input |-> input]]
\* a toolUse block without "name"
ToolUseNoName(id, input) == [toolUse |-> [toolUseId |-> id, input |-> input]]

Assistant(content) == [role |-> "assistant", content |-> content]

Contents ==
  { <<Text("There are 42 rows.")>>,
    <<Text("There are "), Text("42 rows.")>>,
    <<ToolUse("t1", "query_sql", QueryInput)>>,
    <<Text("Let me check."), ToolUse("t1", "query_sql", QueryInput),
      ToolUse("t2", "list_tables", EmptyDict)>>,
    <<ToolUseNoName("t1", QueryInput)>> }

StopReasons == {"tool_use", "end_turn"}

\* answers of bedrock.converse: a response dict, with or without
\* output.message, or an exception
Responses ==
  { [stopReason |-> sr, output |-> [message |-> Assistant(c)]] :
      sr \in StopReasons, c \in Contents }
  \cup { [stopReason |-> sr] : sr \in StopReasons }

\* content items of a CallToolResult
TextItem(s) == [type |-> "text", text |-> s]
ImageItem   == [type |-> "image", data |-> "iVBOR"]

\* outcomes of session.call_tool: a result, or an exception
ToolOutcomes ==
  { [content |-> <<TextItem("42")>>],
    [content |-> <<ImageItem, TextItem("42"), TextItem("43")>>],
    [content |-> <<ImageItem>>],
    [content |-> <<>>] }
  \cup { [exception |-> c] : c \in Causes }

(***************************************************************************)
(* State                                                                   *)
(***************************************************************************)
VARIABLES
  pc,                \* position of main()
  exitCode,          \* <<>> while running, <<code>> once the process ended
  exc,               \* exception propagating out of the loop, <<>> if none
  stdout,            \* the last line printed
  user_input,        \* <<>> before the first input(), then <<line>>
  response,          \* main's response: return value of the last chat
  exit_stack,        \* contexts entered on agent.exit_stack
  session,           \* "None", "open" or "initialized"
  released,          \* contexts closed by aclose, in closing order
  disconnects,       \* calls of agent.disconnect()
  tools,             \* agent.tools
  messages,          \* agent.messages
  chatState,         \* position of the chat coroutine
  tool_config,       \* chat's tool_config
  assistant_message, \* chat's assistant_message
  tool_results,      \* chat's tool_results
  blockIdx,          \* position of the for loop over the content blocks
  request_params,    \* the request bedrock.converse is working on
  toolLog,           \* the session.call_tool calls of the last tool round
  modelCalls,        \* bedrock.converse calls of the current chat call
  toolUseAnswers,    \* of which answered with stopReason "tool_use"
  toolRounds         \* tool-result turns appended by the current chat call

mainVars  == <<pc, exitCode, exc, stdout, user_input, response>>
connVars  == <<exit_stack, session, released, disconnects, tools>>
chatVars  == <<chatState, tool_config, assistant_message, tool_results,
               blockIdx>>
envVars   == <<request_params, toolLog>>
countVars == <<modelCalls, toolUseAnswers, toolRounds>>
vars == <<mainVars, connVars, messages, chatVars, envVars, countVars>>

ModelId == "anthropic.claude-sonnet-4-5-20250929-v1:0"

Init ==
  /\ pc = "connect_sse"
  /\ exitCode = <<>>
  /\ exc = <<>>
  /\ stdout = "Connecting to MCP server..."
  /\ user_input = <<>>
  /\ response = <<>>
  /\ exit_stack = <<>>
  /\ session = "None"
  /\ released = <<>>
  /\ disconnects = 0
  /\ tools = <<>>
  /\ messages = <<>>
  /\ chatState = "idle"
  /\ tool_config = EmptyDict
  /\ assistant_message = EmptyDict
  /\ tool_results = <<>>
  /\ blockIdx = 0
  /\ request_params = EmptyDict
  /\ toolLog = <<>>
  /\ modelCalls = 0
  /\ toolUseAnswers = 0
  /\ toolRounds = 0

(***************************************************************************)
(* connect and its failure handler in main                                 *)
(***************************************************************************)
\* an await of connect raises: the exception leaves connect
ConnectRaises ==
  /\ \E c \in Causes : exc' = <<c>>
  /\ pc' = "connect_failed"
  /\ UNCHANGED <<exitCode, stdout, user_input, response>>

\* streams = await exit_stack.enter_async_context(sse_client(...))
ConnectSse ==
  /\ pc = "connect_sse"
  /\ \/ /\ exit_stack' = Append(exit_stack, "sse_client")
        /\ pc' = "connect_session"
        /\ UNCHANGED <<exitCode, exc, stdout, user_input, response>>
     \/ /\ ConnectRaises
        /\ UNCHANGED exit_stack
  /\ UNCHANGED <<session, released, disconnects, tools, messages, chatVars,
                 envVars, countVars>>

\* self.session = await exit_stack.enter_async_context(ClientSession(...))
ConnectSession ==
  /\ pc = "connect_session"
  /\ \/ /\ exit_stack' = Append(exit_stack, "ClientSession")
        /\ session' = "open"
        /\ pc' = "connect_init"
        /\ UNCHANGED <<exitCode, exc, stdout, user_input, response>>
     \/ /\ ConnectRaises
        /\ UNCHANGED <<exit_stack, session>>
  /\ UNCHANGED <<released, disconnects, tools, messages, chatVars, envVars,
                 countVars>>

\* await self.session.initialize()
ConnectInitialize ==
  /\ pc = "connect_init"
  /\ \/ /\ session' = "initialized"
        /\ pc' = "connect_list"
        /\ UNCHANGED <<exitCode, exc, stdout, user_input, response>>
     \/ /\ ConnectRaises
        /\ UNCHANGED session
  /\ UNCHANGED <<exit_stack, released, disconnects, tools, messages,
                 chatVars, envVars, countVars>>

\* tools_response = await self.session.list_tools(); self.tools = ...;
\* connect returns and main prints the banner
ConnectListTools ==
  /\ pc = "connect_list"
  /\ \/ \E tl \in ToolLists :
          /\ tools' = tl
          /\ stdout' = "Type your questions about the database."
          /\ pc' = "input"
          /\ UNCHANGED <<exitCode, exc, user_input, response>>
     \/ /\ ConnectRaises
        /\ UNCHANGED tools
  /\ UNCHANGED <<exit_stack, session, released, disconnects, messages,
                 chatVars, envVars, countVars>>

\* ConnectFailed without the sys.exit(1): main goes on to the input loop
ConnectFailedNoExit ==
  /\ pc = "connect_failed"
  /\ stdout' = "Make sure the MCP Toolbox server is running."
  /\ exc' = <<>>
  /\ pc' = "input"
  /\ UNCHANGED <<exitCode, user_input, response, connVars, messages,
                 chatVars, envVars, countVars>>

\* main: except Exception around agent.connect(): print, sys.exit(1)
ConnectFailed ==
  /\ pc = "connect_failed"
  /\ stdout' = "Make sure the MCP Toolbox server is running."
  /\ exc' = <<>>
  /\ exitCode' = <<1>>
  /\ pc' = "exited"
  /\ UNCHANGED <<user_input, response, connVars, messages, chatVars,
                 envVars, countVars>>

(***************************************************************************)
(* disconnect                                                              *)
(***************************************************************************)
\* AClose that closes only the context entered last
ACloseTop(stack) ==
  IF stack = <<>> THEN <<>> ELSE <<stack[Len(stack)]>>

\* AsyncExitStack.aclose(): the entered contexts are closed last-in first-out
RECURSIVE AClose(_)
AClose(stack) ==
  IF stack = <<>> THEN <<>>
  ELSE <<stack[Len(stack)]>> \o AClose(SubSeq(stack, 1, Len(stack) - 1))

\* main: finally: await agent.disconnect(); print("Goodbye!"); an exception
\* that left the loop then leaves main and ends the process with status 1
Disconnect ==
  /\ pc = "finally"
  /\ released' = released \o AClose(exit_stack)
  /\ exit_stack' = <<>>
  /\ session' = "closed"
  /\ disconnects' = disconnects + 1
  /\ stdout' = "Goodbye!"
  /\ exitCode' = IF exc = <<>> THEN <<0>> ELSE <<1>>
  /\ pc' = "exited"
  /\ UNCHANGED <<exc, user_input, response, tools, messages, chatVars,
                 envVars, countVars>>

(***************************************************************************)
(* _format_tools_for_bedrock                                               *)
(***************************************************************************)
ToolSpec(tool) ==
  [toolSpec |->
     [name        |-> tool.name,
      description |-> IF TruthyOpt(tool.description)
                      THEN tool.description[1] ELSE "",
      inputSchema |-> [json |-> tool.inputSchema]]]

\* the for loop that fills tool_specs
RECURSIVE ToolSpecs(_)
ToolSpecs(ts) ==
  IF ts = <<>> THEN <<>> ELSE <<ToolSpec(Head(ts))>> \o ToolSpecs(Tail(ts))

\* FormatToolsForBedrock without the test for an empty tool_specs
FormatToolsAlways(ts) == [tools |-> ToolSpecs(ts)]

FormatToolsForBedrock(ts) ==
  LET tool_specs == ToolSpecs(ts)
  IN  IF tool_specs # <<>> THEN [tools |-> tool_specs] ELSE EmptyDict

(***************************************************************************)
(* _execute_tool                                                           *)
(***************************************************************************)
\* str() of a content item and of a CallToolResult
StrItem(item) ==
  IF "text" \in DOMAIN item
  THEN "TextContent(type='text', text='" \o item.text \o "')"
  ELSE "ImageContent(type='image', data='" \o item.data \o "')"

RECURSIVE StrItems(_)
StrItems(items) ==
  IF items = <<>> THEN ""
  ELSE IF Len(items) = 1 THEN StrItem(items[1])
  ELSE StrItem(items[1]) \o ", " \o StrItems(Tail(items))

StrResult(result) ==
  "meta=None content=[" \o StrItems(result.content) \o "] isError=False"

\* FirstText that keeps the last text-bearing item
RECURSIVE LastText(_)
LastText(items) ==
  IF items = <<>> THEN <<>>
  ELSE IF "text" \in DOMAIN items[Len(items)]
       THEN <<items[Len(items)].text>>
       ELSE LastText(SubSeq(items, 1, Len(items) - 1))

\* for content in result.content: if hasattr(content, 'text'): return ...
\* <<>> when the loop ends without returning
RECURSIVE FirstText(_)
FirstText(items) ==
  IF items = <<>> THEN <<>>
  ELSE IF "text" \in DOMAIN items[1] THEN <<items[1].text>>
  ELSE FirstText(Tail(items))

\* ExecuteTool that returns the bare exception text
ExecuteToolBare(outcome) ==
  IF "exception" \in DOMAIN outcome
  THEN outcome.exception
  ELSE LET found == IF outcome.content # <<>>
                    THEN FirstText(outcome.content) ELSE <<>>
       IN  IF found # <<>> THEN found[1] ELSE StrResult(outcome)

\* the string _execute_tool returns when call_tool ends with outcome
ExecuteTool(outcome) ==
  IF "exception" \in DOMAIN outcome
  THEN "Error executing tool: " \o outcome.exception
  ELSE LET found == IF outcome.content # <<>>
                    THEN FirstText(outcome.content) ELSE <<>>
       IN  IF found # <<>> THEN found[1] ELSE StrResult(outcome)

(***************************************************************************)
(* chat                                                                    *)
(***************************************************************************)
\* FinalResponse that stops at the first text block
RECURSIVE FinalResponseFirst(_)
FinalResponseFirst(content) ==
  IF content = <<>> THEN ""
  ELSE LET text == Get(content[1], "text", "")
       IN  IF text # "" THEN text ELSE FinalResponseFirst(Tail(content))

\* the loop that builds final_response
RECURSIVE FinalResponse(_)
FinalResponse(content) ==
  IF content = <<>> THEN ""
  ELSE LET text == Get(content[1], "text", "")
       IN  (IF text # "" THEN text ELSE "") \o FinalResponse(Tail(content))

\* self.messages.append({"role": "user", "content": [{"text": user_message}]})
UserTurn(user_message) ==
  [role |-> "user", content |-> <<[text |-> user_message]>>]

\* request_params, with toolConfig only when tool_config is not empty
RequestParams(msgs, cfg) ==
  IF Truthy(cfg)
  THEN [modelId |-> ModelId, messages |-> msgs, toolConfig |-> cfg]
  ELSE [modelId |-> ModelId, messages |-> msgs]

\* AppendAssistant that inserts the message at the front
AppendAssistantFirst(msgs, message) ==
  IF Truthy(message) THEN <<message>> \o msgs ELSE msgs

\* if assistant_message: self.messages.append(assistant_message)
AppendAssistant(msgs, message) ==
  IF Truthy(message) THEN Append(msgs, message) ELSE msgs

\* NeedsTools that also wants a tool catalog
NeedsToolsWithCatalog(stop_reason) == stop_reason = "tool_use" /\ tools # <<>>

\* NeedsTools with a limit of one tool round per chat call
NeedsToolsOnce(stop_reason) == stop_reason = "tool_use" /\ toolRounds = 0

\* if stop_reason == "tool_use"
NeedsTools(stop_reason) == stop_reason = "tool_use"

\* tool_results.append({"toolResult": {...}})
ToolResult(tool_use_id, result) ==
  [toolResult |-> [toolUseId |-> tool_use_id,
                   content |-> <<[text |-> result]>>]]

\* ToolResultTurn with the role of the turn it answers
ToolResultTurnAssistant(results) ==
  [role |-> "assistant", content |-> results]

\* self.messages.append({"role": "user", "content": tool_results})
ToolResultTurn(results) == [role |-> "user", content |-> results]

\* ClearHistory that keeps the first turn
ClearHistoryKeepsFirst(msgs) ==
  IF msgs = <<>> THEN <<>> ELSE <<msgs[1]>>

\* clear_history: self.messages = []
ClearHistory(msgs) == <<>>

\* chat returns value to main, which prints it and reads the next line
ChatReturns(value, state) ==
  /\ response' = <<value>>
  /\ stdout' = "\nAssistant: " \o value \o "\n"
  /\ chatState' = state
  /\ pc' = "input"
  /\ tool_config' = EmptyDict
  /\ assistant_message' = EmptyDict
  /\ tool_results' = <<>>
  /\ blockIdx' = 0
  /\ UNCHANGED <<exitCode, exc, user_input>>

\* top of the while loop: request_params is built and passed to
\* bedrock.converse
ModelRequest ==
  /\ pc = "chat"
  /\ chatState = "model"
  /\ request_params' = RequestParams(messages, tool_config)
  /\ modelCalls' = modelCalls + 1
  /\ chatState' = "awaiting"
  /\ UNCHANGED <<mainVars, connVars, messages, tool_config,
                 assistant_message, tool_results, blockIdx, toolLog,
                 toolUseAnswers, toolRounds>>

\* ModelFails that goes back to the top of the loop and asks again
ModelFailsRetries ==
  /\ pc = "chat"
  /\ chatState = "awaiting"
  /\ chatState' = "model"
  /\ request_params' = EmptyDict
  /\ toolLog' = <<>>
  /\ UNCHANGED <<mainVars, connVars, messages, tool_config,
                 assistant_message, tool_results, blockIdx, countVars>>

\* ModelFails that appends an assistant turn for the failed request
ModelFailsAppends ==
  /\ pc = "chat"
  /\ chatState = "awaiting"
  /\ \E c \in Causes : ChatReturns("Bedrock error: " \o c, "failed")
  /\ messages' = Append(messages, Assistant(<<>>))
  /\ request_params' = EmptyDict
  /\ toolLog' = <<>>
  /\ UNCHANGED <<connVars, countVars>>

\* bedrock.converse raises: return f"Bedrock error: {e}"
ModelFails ==
  /\ pc = "chat"
  /\ chatState = "awaiting"
  /\ \E c \in Causes : ChatReturns("Bedrock error: " \o c, "failed")
  /\ request_params' = EmptyDict
  /\ toolLog' = <<>>
  /\ UNCHANGED <<connVars, messages, countVars>>

\* bedrock.converse returns: the assistant message is appended, then either
\* the tool round is entered or the final text is returned
ModelAnswers ==
  /\ pc = "chat"
  /\ chatState = "awaiting"
  /\ \E r \in Responses :
       LET stop_reason == Get(r, "stopReason", "None")
           output      == Get(r, "output", EmptyDict)
           message     == Get(output, "message", EmptyDict)
       IN
       /\ stop_reason = "tool_use" => Len(messages) + 3 <= MaxTurns
       /\ messages' = AppendAssistant(messages, message)
       /\ toolUseAnswers' =
            toolUseAnswers + (IF stop_reason = "tool_use" THEN 1 ELSE 0)
       /\ IF NeedsTools(stop_reason)
          THEN /\ assistant_message' = message
               /\ tool_results' = <<>>
               /\ blockIdx' = 1
               /\ chatState' = "tools"
               /\ UNCHANGED <<mainVars, tool_config>>
          ELSE ChatReturns(FinalResponse(Get(message, "content", <<>>)),
                           "returned")
  /\ request_params' = EmptyDict
  /\ toolLog' = <<>>
  /\ UNCHANGED <<connVars, modelCalls, toolRounds>>

\* one iteration of the for loop over assistant_message["content"]
ToolStep ==
  /\ pc = "chat"
  /\ chatState = "tools"
  /\ blockIdx <= Len(Get(assistant_message, "content", <<>>))
  /\ LET content  == Get(assistant_message, "content", <<>>)[blockIdx]
         tool_use == Get(content, "toolUse", EmptyDict)
     IN
     IF ~Truthy(tool_use)
     THEN \* not a toolUse block: next block
          /\ blockIdx' = blockIdx + 1
          /\ UNCHANGED <<mainVars, connVars, messages, chatState,
                         tool_config, assistant_message, tool_results,
                         envVars, countVars>>
     ELSE IF {"name", "input", "toolUseId"} \subseteq DOMAIN tool_use
     THEN \* print, await self._execute_tool(...), tool_results.append(...)
          \E outcome \in ToolOutcomes :
            /\ stdout' = "  [Executing tool: " \o tool_use.name \o "]"
            /\ toolLog' = Append(toolLog,
                 [name |-> tool_use.name, arguments |-> tool_use.input,
                  outcome |-> outcome])
            /\ tool_results' = Append(tool_results,
                 ToolResult(tool_use.toolUseId, ExecuteTool(outcome)))
            /\ blockIdx' = blockIdx + 1
            /\ UNCHANGED <<pc, exitCode, exc, user_input, response,
                           connVars, messages, chatState, tool_config,
                           assistant_message, request_params, countVars>>
     ELSE \* tool_use["name"] / ["input"] / ["toolUseId"] raises KeyError,
          \* which leaves chat and the loop of main
          /\ exc' = <<"KeyError">>
          /\ chatState' = "raised"
          /\ pc' = "finally"
          /\ tool_config' = EmptyDict
          /\ assistant_message' = EmptyDict
          /\ tool_results' = <<>>
          /\ blockIdx' = 0
          /\ UNCHANGED <<exitCode, stdout, user_input, response, connVars,
                         messages, envVars, countVars>>

\* after the for loop: append the tool-result turn and continue the loop
RoundEnd ==
  /\ pc = "chat"
  /\ chatState = "tools"
  /\ blockIdx > Len(Get(assistant_message, "content", <<>>))
  /\ messages' = Append(messages, ToolResultTurn(tool_results))
  /\ chatState' = "model"
  /\ toolRounds' = toolRounds + 1
  /\ UNCHANGED <<mainVars, connVars, tool_config, assistant_message,
                 tool_results, blockIdx, envVars, modelCalls,
                 toolUseAnswers>>

(***************************************************************************)
(* the input loop of main                                                  *)
(***************************************************************************)
\* input() raises EOFError: break
ReadEOF ==
  /\ pc = "input"
  /\ pc' = "finally"
  /\ UNCHANGED <<exitCode, exc, stdout, user_input, response, connVars,
                 messages, chatVars, envVars, countVars>>

\* if not user_input: continue
ReadBlank ==
  /\ pc = "input"
  /\ \E line \in Lines :
       /\ Strip(line) = ""
       /\ user_input' = <<Strip(line)>>
  /\ UNCHANGED <<pc, exitCode, exc, stdout, response, connVars, messages,
                 chatVars, envVars, countVars>>

\* if user_input.lower() == "quit": break
ReadQuit ==
  /\ pc = "input"
  /\ \E line \in Lines :
       /\ Strip(line) # ""
       /\ Lower(Strip(line)) = "quit"
       /\ user_input' = <<Strip(line)>>
  /\ pc' = "finally"
  /\ UNCHANGED <<exitCode, exc, stdout, response, connVars, messages,
                 chatVars, envVars, countVars>>

\* if user_input.lower() == "clear": agent.clear_history(); print; continue
ReadClear ==
  /\ pc = "input"
  /\ \E line \in Lines :
       /\ Strip(line) # ""
       /\ Lower(Strip(line)) = "clear"
       /\ user_input' = <<Strip(line)>>
  /\ messages' = ClearHistory(messages)
  /\ stdout' = "Conversation history cleared.\n"
  /\ UNCHANGED <<pc, exitCode, exc, response, connVars, chatVars, envVars,
                 countVars>>

\* response = await agent.chat(user_input), up to the while loop: the user
\* turn is appended and the tool configuration is built
ReadMessage ==
  /\ pc = "input"
  /\ Len(messages) + 2 <= MaxTurns
  /\ \E line \in Lines :
       /\ Strip(line) # ""
       /\ Lower(Strip(line)) \notin {"quit", "clear"}
       /\ user_input' = <<Strip(line)>>
       /\ messages' = Append(messages, UserTurn(Strip(line)))
  /\ tool_config' = FormatToolsForBedrock(tools)
  /\ chatState' = "model"
  /\ pc' = "chat"
  /\ modelCalls' = 0
  /\ toolUseAnswers' = 0
  /\ toolRounds' = 0
  /\ UNCHANGED <<exitCode, exc, stdout, response, connVars,
                 assistant_message, tool_results, blockIdx, envVars>>

Next ==
  \/ ConnectSse
  \/ ConnectSession
  \/ ConnectInitialize
  \/ ConnectListTools
  \/ ConnectFailed
  \/ ReadEOF
  \/ ReadBlank
  \/ ReadQuit
  \/ ReadClear
  \/ ReadMessage
  \/ ModelRequest
  \/ ModelFails
  \/ ModelAnswers
  \/ ToolStep
  \/ RoundEnd
  \/ Disconnect

Spec == Init /\ [][Next]_vars

\* main runs its except handler and its finally block whenever control
\* reaches them: neither waits for the environment
FairSpec == Spec /\ WF_vars(ConnectFailed) /\ WF_vars(Disconnect)

(***************************************************************************)
(* Vocabulary of the properties                                            *)
(***************************************************************************)
ContentOf(turn) == Get(turn, "content", <<>>)

\* the toolUse blocks of an assistant message, in order
ToolUsesOf(turn) ==
  SelectSeq(ContentOf(turn), LAMBDA b : "toolUse" \in DOMAIN b)

\* the ids requested by a turn and the ids answered by a turn
ToolUseIds(turn) ==
  { ToolUsesOf(turn)[i].toolUse.toolUseId : i \in DOMAIN ToolUsesOf(turn) }

ResultIdsOf(turn) ==
  LET rs == SelectSeq(ContentOf(turn), LAMBDA b : "toolResult" \in DOMAIN b)
  IN  [i \in DOMAIN rs |-> rs[i].toolResult.toolUseId]

Occurrences(seq, x) == Cardinality({ i \in DOMAIN seq : seq[i] = x })

\* every request of an assistant turn is answered exactly once by the next
\* turn, and every result answers a request of the turn before it
HistoryPaired(h) ==
  /\ \A i \in DOMAIN h :
       h[i].role = "assistant" =>
         \A id \in ToolUseIds(h[i]) :
           /\ i < Len(h)
           /\ h[i + 1].role = "user"
           /\ Occurrences(ResultIdsOf(h[i + 1]), id) = 1
  /\ \A j \in DOMAIN h :
       \A k \in DOMAIN ResultIdsOf(h[j]) :
         /\ j > 1
         /\ h[j - 1].role = "assistant"
         /\ ResultIdsOf(h[j])[k] \in ToolUseIds(h[j - 1])

\* the texts of the text blocks of a turn, joined in order
RECURSIVE JoinTexts(_)
JoinTexts(blocks) ==
  IF blocks = <<>> THEN ""
  ELSE JoinTexts(SubSeq(blocks, 1, Len(blocks) - 1))
         \o blocks[Len(blocks)].text

TurnText(turn) ==
  JoinTexts(SelectSeq(ContentOf(turn), LAMBDA b : "text" \in DOMAIN b))

Failed(call) == "exception" \in DOMAIN call.outcome

ErrorResult(id, call) ==
  [toolResult |->
     [toolUseId |-> id,
      content |-> <<[text |-> "Error executing tool: "
                                \o call.outcome.exception]>>]]

(***************************************************************************)
(* C1                                                                      *)
(***************************************************************************)
\* C1: whenever no tool round is in progress, every toolUse id of an
\* assistant turn of the history appears exactly once as a toolResult id in
\* the turn that directly follows it, and every toolResult of the history
\* answers a toolUse of the assistant turn directly before it.
C1_HistoryInvariant == chatState # "tools" => HistoryPaired(messages)

(***************************************************************************)
(* C2                                                                      *)
(***************************************************************************)
\* the results collected so far carry the error text of every failed call,
\* under the id of the request that failed; after the round the same holds
\* of the tool-result turn in the history and in the next model request
C2_ErrorIsToolResult ==
  /\ chatState = "tools" =>
       /\ Len(tool_results) = Len(toolLog)
       /\ \A i \in DOMAIN toolLog :
            Failed(toolLog[i]) =>
              tool_results[i] =
                ErrorResult(ToolUsesOf(assistant_message)[i].toolUse.toolUseId,
                            toolLog[i])
  /\ (chatState \in {"model", "awaiting"} /\ toolLog # <<>>) =>
       LET h == IF chatState = "awaiting"
                THEN request_params.messages ELSE messages
           n == Len(h)
       IN  /\ h = messages
           /\ n >= 2
           /\ h[n].role = "user"
           /\ Len(h[n].content) = Len(toolLog)
           /\ \A i \in DOMAIN toolLog :
                Failed(toolLog[i]) =>
                  h[n].content[i] =
                    ErrorResult(ToolUsesOf(h[n - 1])[i].toolUse.toolUseId,
                                toolLog[i])

\* a failing call_tool leaves chat in its tool round, with no exception
C2_FailureDoesNotRaise ==
  (/\ Len(toolLog') = Len(toolLog) + 1
   /\ Failed(toolLog'[Len(toolLog')]))
  => /\ chatState' = "tools"
     /\ pc' = "chat"
     /\ exc' = <<>>
     /\ blockIdx' = blockIdx + 1

\* C2: when a tool call fails, _execute_tool returns "Error executing tool:
\* <cause>", that string becomes the toolResult of the failing request's id,
\* it is part of the next model request, and chat goes on without raising.
C2_ToolFailureContained ==
  []C2_ErrorIsToolResult /\ [][C2_FailureDoesNotRaise]_vars

\* a model request is in flight whose last turn holds the error text of a
\* failed tool call
C2_Witness ==
  /\ chatState = "awaiting"
  /\ \E i \in DOMAIN toolLog :
       /\ Failed(toolLog[i])
       /\ request_params.messages[Len(request_params.messages)].content[i]
            .toolResult.content[1].text = "Error executing tool: timeout"

(***************************************************************************)
(* C3                                                                      *)
(***************************************************************************)
\* C3: a chat call that returns after the model answered "tool_use" N times
\* and then a terminal stop reason has performed N tool rounds and N + 1
\* model requests, and returns the joined text of the final assistant turn.
C3_LoopTermination ==
  [][ (chatState = "awaiting" /\ chatState' = "returned") =>
        /\ toolRounds' = toolUseAnswers'
        /\ modelCalls' = toolUseAnswers' + 1
        /\ response' = <<TurnText(IF messages' # messages
                                  THEN messages'[Len(messages')]
                                  ELSE EmptyDict)>> ]_vars

\* a chat call has returned a text after two tool rounds
C3_Witness ==
  /\ chatState = "returned"
  /\ toolUseAnswers = 2
  /\ toolRounds = 2
  /\ modelCalls = 3
  /\ response = <<"There are 42 rows.">>

(***************************************************************************)
(* C4                                                                      *)
(***************************************************************************)
BedrockErrorShown ==
  \E c \in Causes : stdout = "\nAssistant: Bedrock error: " \o c \o "\n"

\* the failing request changes nothing in the history and chat returns the
\* error string
C4_FailureStep ==
  (chatState = "awaiting" /\ chatState' = "failed") =>
     /\ messages' = messages
     /\ messages' = request_params.messages
     /\ messages'[Len(messages')].role = "user"
     /\ \E c \in Causes : response' = <<"Bedrock error: " \o c>>
     /\ pc' = "input"
     /\ exc' = <<>>

\* while the error is the last thing shown, the history only changes by a
\* clear or by the user turn of the next chat call
C4_UntilRetry ==
  (pc = "input" /\ chatState = "failed" /\ BedrockErrorShown) =>
     \/ messages' = messages
     \/ stdout' = "Conversation history cleared.\n"
     \/ /\ chatState' = "model"
        /\ messages' = Append(messages, UserTurn(user_input'[1]))

\* the first request of the retry carries the history the failed request
\* carried, followed by the new user turn, and is paired if that one was
C4_Retry ==
  (chatState = "awaiting" /\ modelCalls = 1 /\ BedrockErrorShown) =>
     LET h == request_params.messages
         n == Len(h)
     IN  /\ h = messages
         /\ n >= 2
         /\ h[n] = UserTurn(user_input[1])
         /\ h[n - 1].role = "user"
         /\ HistoryPaired(SubSeq(h, 1, n - 1)) => HistoryPaired(h)

C5_ModelErrorsReturnString ==
  /\ chatState # "raised"
  /\ pc \in {"input", "chat", "finally"} => exc = <<>>

(***************************************************************************)
(* C6                                                                      *)
(***************************************************************************)
Cleared == stdout = "Conversation history cleared.\n"

\* C6: after clear_history the history is empty, and the first model request
\* of the next chat call carries exactly the new user turn.
C6_ResetClearsState ==
  /\ (Cleared /\ pc = "input") => messages = <<>>
  /\ (Cleared /\ chatState = "model" /\ modelCalls = 0) =>
       messages = <<UserTurn(user_input[1])>>
  /\ (Cleared /\ chatState = "awaiting" /\ modelCalls = 1) =>
       /\ Len(request_params.messages) = 1
       /\ request_params.messages = <<UserTurn(user_input[1])>>

\* the first request after a clear that followed a failed chat call with a
\* tool round is in flight
C6_Witness ==
  /\ Cleared
  /\ chatState = "awaiting"
  /\ modelCalls = 1
  /\ toolRounds = 0
  /\ response = <<"Bedrock error: timeout">>
  /\ Len(request_params.messages) = 1

(***************************************************************************)
(* C7                                                                      *)
(***************************************************************************)
Question == "How many rows in table X?"

ScenarioHistory ==
  << [role |-> "user", content |-> <<[text |-> Question]>>],
     [role |-> "assistant",
      content |-> <<[toolUse |-> [toolUseId |-> "t1", name |-> "query_sql",
                                  input |-> QueryInput]]>>],
     [role |-> "user",
      content |-> <<[toolResult |->
                       [toolUseId |-> "t1",
                        content |-> <<[text |-> "42"]>>]]>>],
     [role |-> "assistant",
      content |-> <<[text |-> "There are 42 rows."]>>] >>

\* the value chat returns on a stop reason other than "tool_use"
C7_ReturnStep ==
  (chatState = "awaiting" /\ chatState' = "returned") =>
     IF messages' = messages
     THEN response' = <<"">>
     ELSE LET last == messages'[Len(messages')]
          IN  /\ messages' = Append(messages, last)
              /\ last.role = "assistant"
              /\ response' = <<TurnText(last)>>
              /\ (\A i \in DOMAIN last.content :
                    "text" \notin DOMAIN last.content[i])
                 => response' = <<"">>

\* the scenario of the specification
C7_Scenario ==
  /\ (/\ chatState = "awaiting"
      /\ Len(messages) = 3
      /\ SubSeq(messages, 1, 2) = SubSeq(ScenarioHistory, 1, 2)
      /\ toolLog = <<[name |-> "query_sql", arguments |-> QueryInput,
                      outcome |-> [content |-> <<TextItem("42")>>]]>>)
     => /\ messages[3] = ScenarioHistory[3]
        /\ request_params.messages = SubSeq(ScenarioHistory, 1, 3)
  /\ (/\ chatState = "returned"
      /\ Len(messages) = 4
      /\ SubSeq(messages, 1, 3) = SubSeq(ScenarioHistory, 1, 3)
      /\ messages[4] = ScenarioHistory[4])
     => response = <<"There are 42 rows.">>

\* C7: on a stop reason other than "tool_use" chat returns the texts of the
\* text blocks of the final assistant turn, joined in order, and nothing
\* else; the empty string when there is no text block or no message; in the
\* scenario it returns "There are 42 rows." and the history holds the
\* toolResult of t1 with text "42".
C7_FinalAnswer == [][C7_ReturnStep]_vars /\ []C7_Scenario

\* the scenario has run to its end
C7_Witness ==
  /\ chatState = "returned"
  /\ messages = ScenarioHistory
  /\ response = <<"There are 42 rows.">>
  /\ toolRounds = 1

(***************************************************************************)
(* C8                                                                      *)
(***************************************************************************)
ExpectedToolSpec(tool) ==
  [toolSpec |->
     [name |-> tool.name,
      description |-> IF tool.description = <<>> THEN ""
                      ELSE tool.description[1],
      inputSchema |-> [json |-> tool.inputSchema]]]

\* C8: with an empty tool list the configuration is empty and no model
\* request carries a toolConfig; with a non-empty list the configuration has
\* one toolSpec per tool, in order, with name, description ("" when absent)
\* and input schema, and every model request carries it.
C8_ToolConfig ==
  /\ chatState \in {"model", "awaiting", "tools"} =>
       IF tools = <<>>
       THEN DOMAIN tool_config = {}
       ELSE /\ DOMAIN tool_config = {"tools"}
            /\ Len(tool_config.tools) = Len(tools)
            /\ \A i \in DOMAIN tools :
                 tool_config.tools[i] = ExpectedToolSpec(tools[i])
  /\ chatState = "awaiting" =>
       IF tools = <<>>
       THEN "toolConfig" \notin DOMAIN request_params
       ELSE /\ "toolConfig" \in DOMAIN request_params
            /\ Len(request_params.toolConfig.tools) = Len(tools)
            /\ \A i \in DOMAIN tools :
                 request_params.toolConfig.tools[i]
                   = ExpectedToolSpec(tools[i])

\* the second request of a chat call is in flight with an empty catalog
C8_Witness ==
  /\ chatState = "awaiting"
  /\ tools = <<>>
  /\ modelCalls = 2
  /\ DOMAIN request_params = {"modelId", "messages"}

(***************************************************************************)
(* C9                                                                      *)
(***************************************************************************)
ConnectFailureShown ==
  stdout = "Make sure the MCP Toolbox server is running."

\* disconnect runs at most once, closes everything connect entered, and the
\* process that got past connect does not end without it
C9_Released ==
  /\ disconnects <= 1
  /\ disconnects = 1 =>
       /\ pc = "exited"
       /\ exit_stack = <<>>
       /\ released = <<"ClientSession", "sse_client">>
       /\ chatState \notin {"model", "awaiting", "tools"}
  /\ (pc = "exited" /\ ~ConnectFailureShown) => disconnects = 1

\* after disconnect no chat call starts and no model request is made
C9_NoChatAfter ==
  disconnects >= 1 =>
     /\ chatState' = chatState
     /\ messages' = messages
     /\ modelCalls' = modelCalls
     /\ disconnects' = disconnects

\* C9: once connect has succeeded, however the input loop ends (quit, end
\* of input, an exception out of chat), disconnect is eventually called,
\* exactly once, and releases every resource connect acquired; no chat call
\* starts after it.
C9_GuaranteedRelease ==
  /\ []C9_Released
  /\ [][C9_NoChatAfter]_vars
  /\ (pc = "finally") ~> (disconnects = 1 /\ exit_stack = <<>>)

\* the loop was left by an exception out of chat and disconnect has run
C9_Witness ==
  /\ pc = "exited"
  /\ exc = <<"KeyError">>
  /\ disconnects = 1
  /\ released = <<"ClientSession", "sse_client">>

(***************************************************************************)
(* C10                                                                     *)
(***************************************************************************)
\* nothing was read and no chat call or model request was made
NothingDone ==
  /\ user_input = <<>>
  /\ response = <<>>
  /\ chatState = "idle"
  /\ modelCalls = 0
  /\ messages = <<>>
  /\ DOMAIN request_params = {}

C10_State ==
  /\ pc \in {"connect_sse", "connect_session", "connect_init",
             "connect_list", "connect_failed"} => NothingDone
  /\ (pc = "exited" /\ disconnects = 0) => (NothingDone /\ exitCode = <<1>>)

\* C10: when connect fails at any of its steps the process exits with code
\* 1, without having read user input and without any chat call or model
\* request.
C10_FatalConnectionFailure ==
  /\ []C10_State
  /\ (pc = "connect_failed") ~> (pc = "exited" /\ exitCode = <<1>>)
  /\ [][pc = "connect_failed" => pc' = "exited"]_vars

\* list_tools failed and the process has exited with code 1
C10_Witness ==
  /\ pc = "exited"
  /\ exitCode = <<1>>
  /\ session = "initialized"
  /\ exit_stack = <<"sse_client", "ClientSession">>
  /\ user_input = <<>>

(***************************************************************************)
(* C11                                                                     *)
(***************************************************************************)
\* a step in which bedrock.converse returned a response
ModelAnswered ==
  chatState = "awaiting" /\ chatState' \in {"tools", "returned"}

\* C11: every successful model response appends exactly one assistant turn
\* to the history, also when the returned message is empty or absent.
C11_AssistantAlwaysAppended ==
  [][ ModelAnswered =>
        /\ Len(messages') = Len(messages) + 1
        /\ SubSeq(messages', 1, Len(messages)) = messages
        /\ messages'[Len(messages')].role = "assistant" ]_vars

(***************************************************************************)
(* C12                                                                     *)
(***************************************************************************)
\* the toolUse blocks among the first n content blocks of a message
ToolUsesUpTo(message, n) ==
  SelectSeq(SubSeq(ContentOf(message), 1, n),
            LAMBDA b : "toolUse" \in DOMAIN b)

\* the calls made and the results collected so far are those of the toolUse
\* blocks passed so far, in the order of the blocks
C12_InOrder ==
  chatState = "tools" =>
     LET uses == ToolUsesUpTo(assistant_message, blockIdx - 1)
     IN  /\ Len(toolLog) = Len(uses)
         /\ Len(tool_results) = Len(uses)
         /\ \A i \in DOMAIN uses :
              /\ toolLog[i].name = uses[i].toolUse.name
              /\ toolLog[i].arguments = uses[i].toolUse.input
              /\ DOMAIN tool_results[i] = {"toolResult"}
              /\ tool_results[i].toolResult.toolUseId
                   = uses[i].toolUse.toolUseId

\* the round ends by appending one user turn that holds the collected
\* results, one per toolUse block of the message, and asks the model again
C12_RoundEnds ==
  (chatState = "tools" /\ chatState' # "tools") =>
     /\ chatState' = "model"
     /\ messages' = Append(messages,
                           [role |-> "user", content |-> tool_results])
     /\ Len(tool_results) = Len(ToolUsesOf(assistant_message))

\* C12: a tool round calls _execute_tool once per toolUse block of the
\* assistant turn, in block order, skipping other blocks, then appends one
\* user turn holding exactly the toolResult blocks, in that order and keyed
\* by the ids of their requests, and goes back to asking the model.
C12_ToolRound == []C12_InOrder /\ [][C12_RoundEnds]_vars

(***************************************************************************)
(* C13                                                                     *)
(***************************************************************************)
\* every request of an assistant turn is answered in the turn after it
AllAnswered(h) ==
  \A i \in DOMAIN h :
    h[i].role = "assistant" =>
      \A id \in ToolUseIds(h[i]) :
        /\ i < Len(h)
        /\ h[i + 1].role = "user"
        /\ id \in { ResultIdsOf(h[i + 1])[k] :
                      k \in DOMAIN ResultIdsOf(h[i + 1]) }

\* C13: no model request is in flight during a tool round, and every model
\* request carries a history in which each toolUse id has its toolResult in
\* the user turn directly after the requesting assistant turn.
C13_NoPartialCompletion ==
  /\ chatState = "tools" => DOMAIN request_params = {}
  /\ chatState = "awaiting" => AllAnswered(request_params.messages)

(***************************************************************************)
(* C14                                                                     *)
(***************************************************************************)
\* the response handled in this step had stopReason "tool_use"
AnsweredToolUse == toolUseAnswers' = toolUseAnswers + 1

\* the tool round is entered exactly on stopReason "tool_use"; on any other
\* stop reason the call returns, appends no user turn and calls no tool
C14_StopReasonDecides ==
  ModelAnswered =>
     /\ AnsweredToolUse <=> chatState' = "tools"
     /\ ~AnsweredToolUse =>
          /\ chatState' = "returned"
          /\ pc' = "input"
          /\ toolLog' = <<>>
          /\ \/ messages' = messages
             \/ /\ Len(messages') = Len(messages) + 1
                /\ messages'[Len(messages')].role = "assistant"

\* a tool round without toolUse block appends an empty user turn and asks
\* the model again
C14_EmptyRound ==
  (/\ chatState = "tools"
   /\ ToolUsesOf(assistant_message) = <<>>
   /\ chatState' # "tools")
  => /\ chatState' = "model"
     /\ messages' = Append(messages, [role |-> "user", content |-> <<>>])
     /\ toolLog' = <<>>

\* C14: after a successful model response chat enters a tool round if and
\* only if stopReason is "tool_use"; another stop reason ends the call even
\* when the message has toolUse blocks, and a tool_use response without
\* toolUse block still appends a user turn and asks again.
C14_StopSignalDecides ==
  [][C14_StopReasonDecides /\ C14_EmptyRound]_vars

\* a call has returned on a message with a toolUse block, without a tool
\* round and without a tool call
C14_Witness ==
  /\ chatState = "returned"
  /\ pc = "input"
  /\ toolRounds = 0
  /\ toolLog = <<>>
  /\ messages # <<>>
  /\ ToolUsesOf(messages[Len(messages)]) # <<>>
  /\ messages[Len(messages)].role = "assistant"

(***************************************************************************)
(* C15                                                                     *)
(***************************************************************************)
\* one model request per iteration of the while loop
C15_OneRequestPerIteration ==
  /\ chatState = "model" => modelCalls = toolRounds
  /\ chatState \in {"awaiting", "tools"} => modelCalls = toolRounds + 1

\* a failed request ends the call, and one pass of the for loop makes one
\* call_tool for a toolUse block and none for another block, whatever the
\* outcome of the call
C15_NoSecondAttempt ==
  /\ (chatState = "awaiting" /\ chatState' \notin {"awaiting", "tools"}) =>
       /\ chatState' \in {"failed", "returned"}
       /\ pc' = "input"
       /\ modelCalls' = modelCalls
       /\ DOMAIN request_params' = {}
  /\ (chatState = "tools" /\ chatState' = "tools") =>
       /\ blockIdx' = blockIdx + 1
       /\ Len(toolLog') =
            Len(toolLog) +
              (IF "toolUse" \in DOMAIN ContentOf(assistant_message)[blockIdx]
               THEN 1 ELSE 0)
       /\ SubSeq(toolLog', 1, Len(toolLog)) = toolLog

InChat == chatState \in {"model", "awaiting", "tools"}

\* a chat call ends exactly in the step that handles a failed request or an
\* answer with another stop reason than "tool_use"; an answer "tool_use"
\* always starts a round, and every round makes the history longer
C16_LoopStep ==
  /\ (InChat /\ chatState' \notin {"model", "awaiting", "tools"}) =>
       (chatState = "awaiting" /\ ~AnsweredToolUse)
  /\ (chatState = "awaiting" /\ chatState' # "awaiting") =>
       IF AnsweredToolUse
       THEN chatState' = "tools" /\ pc' = "chat"
       ELSE chatState' \in {"returned", "failed"}
  /\ (chatState = "tools" /\ chatState' = "model") =>
       /\ toolRounds' = toolRounds + 1
       /\ Len(messages') = Len(messages) + 1

\* C16: chat has no limit on the number of tool rounds: a call ends if and
\* only if a model request fails or answers with a stop reason other than
\* "tool_use", so as long as the model answers "tool_use" the call goes on
\* and the history grows.
C16_UnboundedLoop == [][C16_LoopStep]_vars

(***************************************************************************)
(* C17                                                                     *)
(***************************************************************************)
IsPrefix(a, b) == Len(a) <= Len(b) /\ SubSeq(b, 1, Len(a)) = a

\* C17: the history is append-only: every step keeps the history as a
\* prefix of the new one, during a chat call in particular, except the
\* clear command, which empties it.
C17_AppendOnly ==
  [][ /\ pc = "chat" => IsPrefix(messages, messages')
      /\ \/ IsPrefix(messages, messages')
         \/ /\ pc = "input"
            /\ pc' = "input"
            /\ stdout' = "Conversation history cleared.\n"
            /\ messages' = <<>> ]_vars

\* a chat call with two tool rounds has returned
C17_Witness ==
  /\ chatState = "returned"
  /\ Len(messages) = 6
  /\ toolRounds = 2

(***************************************************************************)
(* C18                                                                     *)
(***************************************************************************)
\* the text _execute_tool is to return for a result
NormalizedText(result) ==
  LET texts == SelectSeq(result.content, LAMBDA item : "text" \in DOMAIN item)
  IN  IF texts # <<>> THEN texts[1].text ELSE StrResult(result)

\* C18: for a successful call _execute_tool returns the text of the first
\* content item that has a text and ignores the later items; without
\* content items, or without an item that has a text, it returns the string
\* rendering of the result.
C18_ResultNormalization ==
  chatState = "tools" =>
     \A i \in DOMAIN toolLog :
       ~Failed(toolLog[i]) =>
          /\ tool_results[i].toolResult.content
               = <<[text |-> NormalizedText(toolLog[i].outcome)]>>
          /\ toolLog[i].outcome.content
               = <<ImageItem, TextItem("42"), TextItem("43")>>
             => tool_results[i].toolResult.content[1].text = "42"
          /\ toolLog[i].outcome.content = <<>>
             => tool_results[i].toolResult.content[1].text
                  = "meta=None content=[] isError=False"

\* one round has had a result with texts after an image and a result with
\* an image only
C18_Witness ==
  /\ chatState = "tools"
  /\ Len(toolLog) = 2
  /\ toolLog[1].outcome = [content |->
                             <<ImageItem, TextItem("42"), TextItem("43")>>]
  /\ toolLog[2].outcome = [content |-> <<ImageItem>>]
  /\ tool_results[1].toolResult.content[1].text = "42"

(***************************************************************************)
(* C19                                                                     *)
(***************************************************************************)
\* what one pass of the input loop does, given the lines that count as the
\* quit and the clear command
InputLoopStep(quitWords, clearWords) ==
  pc = "input" =>
     /\ pc' = "input" =>
          \/ /\ user_input' = <<"">>
             /\ UNCHANGED <<exitCode, exc, stdout, response, connVars,
                            messages, chatVars, envVars, countVars>>
          \/ /\ user_input' # <<>>
             /\ user_input'[1] \in clearWords
             /\ messages' = <<>>
             /\ UNCHANGED <<exitCode, exc, response, connVars, chatVars,
                            envVars, countVars>>
     /\ pc' = "finally" =>
          /\ \/ user_input' = user_input
             \/ /\ user_input' # <<>>
                /\ user_input'[1] \in quitWords
          /\ UNCHANGED <<messages, chatVars, envVars, countVars, response>>
     /\ pc' = "chat" =>
          /\ user_input'[1] \notin ({""} \cup quitWords \cup clearWords)
          /\ messages' = Append(messages, UserTurn(user_input'[1]))
          /\ chatState' = "model"
          /\ modelCalls' = 0
     /\ pc' \in {"input", "finally", "chat"}

\* a line is read only while no chat call is running
OneChatAtATime ==
  /\ user_input' # user_input => (pc = "input" /\ ~InChat)
  /\ pc' = "chat" <=> chatState' \in {"model", "awaiting", "tools"}

\* C19: a blank line changes nothing; "clear" empties the history without a
\* model request; "quit" and end of input end the loop without a chat call;
\* every other line starts exactly one chat call, and the next line is read
\* only after it has returned.
C19_LiteralCommands ==
  [][InputLoopStep({"quit"}, {"clear"}) /\ OneChatAtATime]_vars

\* C19 as amended: the same, with quit and clear recognised in any letter
\* case.
C19_Commands ==
  [][ /\ InputLoopStep({"quit", "Quit", "QUIT"}, {"clear", "Clear"})
      /\ OneChatAtATime ]_vars

\* the loop was left by the line "Quit" after a chat call
C19_Witness ==
  /\ pc = "finally"
  /\ user_input = <<"Quit">>
  /\ chatState = "returned"

(***************************************************************************)
(* C20                                                                     *)
(***************************************************************************)
\* C20: every model request carries a non-empty history whose last turn has
\* role user.
C20_LastTurnIsUser ==
  chatState = "awaiting" =>
     /\ "messages" \in DOMAIN request_params
     /\ request_params.messages # <<>>
     /\ request_params.messages[Len(request_params.messages)].role = "user"

\* the request after a tool round is in flight
C20_Witness ==
  /\ chatState = "awaiting"
  /\ modelCalls = 2
  /\ ResultIdsOf(request_params.messages[Len(request_params.messages)])
       = <<"t1", "t2">>
====
